---- MODULE Spec2Model ----
(***************************************************************************)
(* Adaptive file delivery pipeline of URL_UploadV1:                        *)
(*   FileHandler.download_file / download_and_send_file (file_handler.py)  *)
(*   HybridFileHandler.send_file, MTProtoFileHandler (mtproto_client.py)   *)
(* Requests are coroutines on one event loop: every action below is the    *)
(* code that runs between two suspension points (await) of one request.    *)
(* The scratch directory follows POSIX semantics (unlinking an open file   *)
(* is allowed, removing a missing path raises).  asyncio.CancelledError is *)
(* a BaseException (Python >= 3.8): "except Exception" does not catch it.  *)
(***************************************************************************)
EXTENDS Integers, Naturals, Sequences, FiniteSets, TLC

\* Sizes are counted in KiB (1024 bytes): 2 GB does not fit TLC's 32-bit integers
\* when counted in bytes.
MB == 1024

\* ---- bounds of the model -------------------------------------------------
\* rate-limit signals the transport raises against one request
MaxFloods == 1
\* numeric collision suffixes explored in the scratch directory
MaxSuffix == 2

\* ---- program constants ---------------------------------------------------
\* HybridFileHandler.bot_api_limit
bot_api_limit == 50 * MB
\* download_file: MAX_LARGE_FILE_SIZE
MAX_LARGE_FILE_SIZE == 2 * 1024 * MB
\* config.MAX_FILE_SIZE: int(os.getenv('MAX_FILE_SIZE', '52428800'))
MaxFileSizeDefault == 52428800 \div 1024
MaxFileSizeChoices == {MaxFileSizeDefault, 100 * MB}
\* config.CHUNK_SIZE: int(os.getenv('CHUNK_SIZE', '8192')); the model runs
\* with CHUNK_SIZE set to 50 MB so that a body is a handful of increments
CHUNK_SIZE == 50 * MB

\* ---- inputs ----------------------------------------------------------------
Req == {1, 2}
FileNames == {"a.bin", "b.bin"}
\* content-length of the HEAD probe (0: header absent)
HeadSizes == {0, 10 * MB, MAX_LARGE_FILE_SIZE, MAX_LARGE_FILE_SIZE + 1}
\* content-length of the GET response (0: header absent)
GetSizes == {0, 50 * MB, 200 * MB}
\* FloodWait.value, seconds
Waits == {3, 7}

\* values of TELEGRAM_API_ID, as sequences of characters: a number, unset, no number
GoodId == <<"1", "2", "3">>
BadId == <<"a", "b", "c">>
Unset == <<>>
\* a value of TELEGRAM_API_HASH
SomeHash == <<"h">>

\* <<pyrogram importable, TELEGRAM_API_ID, TELEGRAM_API_HASH>>
Environments == {<<TRUE, GoodId, SomeHash>>, <<FALSE, GoodId, SomeHash>>,
                 <<TRUE, Unset, SomeHash>>, <<TRUE, GoodId, Unset>>,
                 <<TRUE, BadId, SomeHash>>}

NoPath == <<"", 0>>
Paths == FileNames \X (0 .. MaxSuffix)
NoFile == [size |-> -1, owners |-> {}]

VARIABLES
    max_file_size,       \* config.MAX_FILE_SIZE
    PYROGRAM_AVAILABLE,  \* mtproto_client.PYROGRAM_AVAILABLE
    api_id, api_hash,    \* TELEGRAM_API_ID / TELEGRAM_API_HASH in the environment
    app,                 \* MTProtoFileHandler.app is not None
    is_connected,        \* app.is_connected
    phase,               \* "init" until TelegramBot.initialize has returned
    files,               \* scratch directory: path -> file (size, requests holding it)
    req,                 \* per request: position and locals of download_and_send_file
    temp_dir,            \* FileHandler.temp_dir exists on disk
    mt_temp_dir,         \* MTProtoFileHandler.temp_dir exists on disk
    fn,                  \* a call of one of the pure functions (utils.py, timeouts)
    split,               \* a call of FileHandler.handle_large_file
    bot                  \* one user's chat with TelegramBot: the downloads table and user_data

vars == <<max_file_size, PYROGRAM_AVAILABLE, api_id, api_hash, app, is_connected,
          phase, files, req, temp_dir, mt_temp_dir, fn, split, bot>>
\* what no step of a request changes
cfg == <<max_file_size, PYROGRAM_AVAILABLE, api_id, api_hash, app,
         temp_dir, mt_temp_dir, fn, split, bot>>

\* no call of a pure function, no call of handle_large_file
NoCall == [op |-> "none"]

Max(a, b) == IF a >= b THEN a ELSE b

\* ---- scratch directory -----------------------------------------------------
exists(fs, p) == p \in Paths /\ fs[p] # NoFile

\* open(path, 'wb') by request r: creates the file or truncates the one there
open_wb(fs, p, r) ==
    IF exists(fs, p)
    THEN [fs EXCEPT ![p] = [size |-> 0, owners |-> @.owners \cup {r}]]
    ELSE [fs EXCEPT ![p] = [size |-> 0, owners |-> {r}]]

\* file.write(chunk) through r's handle, whose offset is now `upto`; a handle
\* whose file was unlinked writes to an inode no path names any more
write(fs, p, r, upto) ==
    IF exists(fs, p) /\ r \in fs[p].owners
    THEN [fs EXCEPT ![p].size = Max(@, upto)]
    ELSE fs

\* os.remove(path); the caller has checked that the path exists
remove(fs, p) == [fs EXCEPT ![p] = NoFile]

\* os.path.getsize(path); the caller has checked that the path exists
getsize(fs, p) == fs[p].size

\* download_file, lines 94-103: first of name, name_1, name_2, ... not in the directory
UniquePath(fs, name) ==
    LET k == CHOOSE k \in 0 .. MaxSuffix :
                 /\ ~exists(fs, <<name, k>>)
                 /\ \A j \in 0 .. (k - 1) : exists(fs, <<name, j>>)
    IN <<name, k>>

\* ---- secondary transport -------------------------------------------------
\* the truth value of what os.getenv returns: None and '' are false
truthy(s) == s # <<>>

Digits == {"0", "1", "2", "3", "4", "5", "6", "7", "8", "9"}
\* int(s) returns rather than raising ValueError
int_ok(s) == s # <<>> /\ \A i \in 1 .. Len(s) : s[i] \in Digits

\* MTProtoFileHandler.__init__ and _init_client: the Client object is built only
\* with pyrogram, both credentials and an api id that int() accepts
InitClient(pyro, id, hash) == pyro /\ truthy(id) /\ truthy(hash) /\ int_ok(id)

\* an is_available that looks at the environment only
is_available_env_only == PYROGRAM_AVAILABLE /\ truthy(api_id) /\ truthy(api_hash)

\* MTProtoFileHandler.is_available
is_available == PYROGRAM_AVAILABLE /\ app /\ truthy(api_id) /\ truthy(api_hash)

\* ---- requests ----------------------------------------------------------------
NewReq == [pc |-> "idle",
           head_size |-> -1,            \* file_size of download_file, read last at line 85
           temp_file_path |-> NoPath,   \* local of download_and_send_file
           dl_path |-> NoPath,          \* local temp_file_path of download_file
           gets |-> 0,                  \* session.get calls
           total_size |-> 0,
           downloaded_size |-> 0,
           file_size |-> -1,            \* os.path.getsize in send_file, -1 before
           strategy |-> "none",
           err |-> "none",              \* exception download_file raised
           result |-> "none",
           bot_docs |-> 0,              \* context.bot.send_document calls
           mt_calls |-> 0,              \* send_large_document invocations
           mt_uploads |-> 0,            \* app.send_document calls
           mt_floods |-> 0,             \* FloodWait raised by app.send_document
           mt_path |-> NoPath,          \* file_path argument of send_large_document
           mt_fail |-> "none",          \* why send_large_document returned False
           mt_ok |-> FALSE,             \* value send_large_document returned
           flood_wait |-> 0,            \* FloodWait.value of the signal being handled
           sleep_for |-> 0,             \* argument of the asyncio.sleep in progress
           recorded |-> 0]

Init ==
    /\ max_file_size \in MaxFileSizeChoices
    /\ \E e \in Environments :
          /\ PYROGRAM_AVAILABLE = e[1]
          /\ api_id = e[2]
          /\ api_hash = e[3]
    /\ app = InitClient(PYROGRAM_AVAILABLE, api_id, api_hash)
    /\ is_connected = FALSE
    /\ phase = "init"
    /\ files = [p \in Paths |-> NoFile]
    /\ req = [r \in Req |-> NewReq]
    /\ temp_dir = TRUE          \* tempfile.mkdtemp(prefix='telegram_bot_')
    /\ mt_temp_dir = TRUE       \* tempfile.mkdtemp(prefix='mtproto_bot_')
    /\ fn = NoCall
    /\ split = NoCall
    /\ bot = NoCall

\* HybridFileHandler.initialize, awaited by main before any update is handled
initialize ==
    /\ phase = "init"
    /\ phase' = "serving"
    /\ IF is_available
       THEN \E ok \in BOOLEAN : is_connected' = ok     \* start_client: app.start()
       ELSE is_connected' = FALSE
    /\ UNCHANGED <<cfg, files, req>>

\* a finally block that leaves the file where it is
Finally_keep(fs, q) == fs

\* the finally block of download_and_send_file, lines 428-435
Finally(fs, q) ==
    IF q.temp_file_path # NoPath /\ exists(fs, q.temp_file_path)
    THEN remove(fs, q.temp_file_path)
    ELSE fs

\* download_and_send_file returns `res` (or lets an exception out): finally runs
Return(r, q, fs, res) ==
    /\ req' = [req EXCEPT ![r] = [q EXCEPT !.pc = "done", !.result = res]]
    /\ files' = Finally(fs, q)

\* an except clause of download_and_send_file: await context.bot.send_message(...)
Except(r, q, fs, e) ==
    /\ req' = [req EXCEPT ![r] = [q EXCEPT !.pc = "err_msg", !.err = e]]
    /\ files' = fs

\* download_and_send_file, lines 399-405: record the delivery when it succeeded
AfterSend(r, q, fs, success) ==
    IF success
    THEN \E stored \in BOOLEAN :
            IF stored
            THEN Return(r, [q EXCEPT !.recorded = @ + 1], fs, "true")
            ELSE Except(r, q, fs, "RecordError")   \* Database.record_download raised
    ELSE Return(r, q, fs, "false")

\* send_large_document returned `ok`: send_file goes on to delete the progress message
MtReturn(r, q, ok, why) ==
    /\ req' = [req EXCEPT ![r] = [q EXCEPT !.pc = "del_msg", !.mt_ok = ok, !.mt_fail = why]]
    /\ files' = files

\* send_large_document, lines 124-135: the size of the file, then the chat lookup
MtBody(r, q) ==
    IF exists(files, q.mt_path)
    THEN /\ req' = [req EXCEPT ![r] = [q EXCEPT !.pc = "mt_chat"]]
         /\ files' = files
    ELSE MtReturn(r, q, FALSE, "getsize")

\* send_large_document, lines 111-122: entry of a call with file_path = p
send_large_document(r, q0, p) ==
    LET q == [q0 EXCEPT !.mt_calls = @ + 1, !.mt_path = p] IN
    IF ~app \/ ~PYROGRAM_AVAILABLE
    THEN MtReturn(r, q, FALSE, "no_client") /\ UNCHANGED is_connected
    ELSE IF ~is_connected
         THEN /\ req' = [req EXCEPT ![r] = [q EXCEPT !.pc = "mt_start"]]
              /\ UNCHANGED <<files, is_connected>>
         ELSE MtBody(r, q) /\ UNCHANGED is_connected

\* send_file with the comparison of line 229 written "<": a file of exactly
\* bot_api_limit bytes leaves the Bot API path
send_file_strict(r, q0, p) ==
    IF ~exists(files, p)
    THEN AfterSend(r, q0, files, FALSE)
    ELSE LET size == getsize(files, p)
             q == [q0 EXCEPT !.file_size = size] IN
         IF size < bot_api_limit
         THEN /\ req' = [req EXCEPT ![r] = [q EXCEPT !.strategy = "Direct",
                                                     !.bot_docs = @ + 1,
                                                     !.pc = "bot_send"]]
              /\ files' = files
         ELSE IF is_available
         THEN /\ req' = [req EXCEPT ![r] = [q EXCEPT !.strategy = "SecondaryLarge",
                                                     !.pc = "progress_msg"]]
              /\ files' = files
         ELSE /\ req' = [req EXCEPT ![r] = [q EXCEPT !.strategy = "TooLarge",
                                                     !.pc = "too_large_msg"]]
              /\ files' = files

\* HybridFileHandler.send_file, lines 225-275, up to its first await
send_file(r, q0, p) ==
    IF ~exists(files, p)
    THEN AfterSend(r, q0, files, FALSE)          \* getsize raised: return False
    ELSE LET size == getsize(files, p)
             q == [q0 EXCEPT !.file_size = size] IN
         IF size <= bot_api_limit
         THEN /\ req' = [req EXCEPT ![r] = [q EXCEPT !.strategy = "Direct",
                                                     !.bot_docs = @ + 1,
                                                     !.pc = "bot_send"]]
              /\ files' = files
         ELSE IF is_available
         THEN /\ req' = [req EXCEPT ![r] = [q EXCEPT !.strategy = "SecondaryLarge",
                                                     !.pc = "progress_msg"]]
              /\ files' = files
         ELSE /\ req' = [req EXCEPT ![r] = [q EXCEPT !.strategy = "TooLarge",
                                                     !.pc = "too_large_msg"]]
              /\ files' = files

\* ---- actions: download_and_send_file and what it awaits ----------------------

\* a handler calls download_and_send_file; it runs up to the HEAD probe
download_and_send_file(r) ==
    /\ phase = "serving"
    /\ req[r].pc = "idle"
    /\ req' = [req EXCEPT ![r].pc = "head"]
    /\ UNCHANGED <<cfg, is_connected, phase, files>>

\* a download_file without the check of lines 84-86
get_file_info_unchecked(r) ==
    /\ req[r].pc = "head"
    /\ \E name \in FileNames, size \in HeadSizes :
          /\ req' = [req EXCEPT ![r].pc = "get",
                                ![r].head_size = size,
                                ![r].dl_path = UniquePath(files, name)]
          /\ files' = files
    /\ UNCHANGED <<cfg, is_connected, phase>>

\* get_file_info returns (filename, file_size); download_file, lines 83-107
get_file_info(r) ==
    /\ req[r].pc = "head"
    /\ \E name \in FileNames, size \in HeadSizes :
          IF size > MAX_LARGE_FILE_SIZE
          THEN Except(r, [req[r] EXCEPT !.head_size = size], files, "HardCeiling")
          ELSE /\ req' = [req EXCEPT ![r].pc = "get",
                                     ![r].head_size = size,
                                     ![r].dl_path = UniquePath(files, name)]
               /\ files' = files
    /\ UNCHANGED <<cfg, is_connected, phase>>

\* session.get answers; download_file, lines 109-122
session_get(r) ==
    LET q == [req[r] EXCEPT !.head_size = -1, !.gets = 1] IN
    /\ req[r].pc = "get"
    /\ \E answer \in {"ok", "status", "network"}, total \in GetSizes :
          CASE answer = "network" -> Except(r, q, files, "NetworkError")
            [] answer = "status" -> Except(r, q, files, "HttpStatus")
            [] OTHER ->
                 IF total > max_file_size
                 THEN Except(r, q, files, "SizeExceeded")
                 ELSE /\ req' = [req EXCEPT ![r] = [q EXCEPT !.pc = "stream",
                                                             !.total_size = total]]
                      /\ files' = open_wb(files, q.dl_path, r)
    /\ UNCHANGED <<cfg, is_connected, phase>>

\* a download loop without the size check of lines 127-130
iter_chunked_unchecked(r) ==
    LET q == req[r]
        n == q.downloaded_size + CHUNK_SIZE
        q1 == [q EXCEPT !.downloaded_size = n] IN
    /\ q.pc = "stream"
    /\ n <= 4 * CHUNK_SIZE
    /\ q.total_size = 0 \/ n <= q.total_size
    /\ req' = [req EXCEPT ![r] = q1]
    /\ files' = write(files, q.dl_path, r, n)
    /\ UNCHANGED <<cfg, is_connected, phase>>

\* one increment of the body arrives; download_file, lines 123-132
iter_chunked(r) ==
    LET q == req[r]
        n == q.downloaded_size + CHUNK_SIZE
        q1 == [q EXCEPT !.downloaded_size = n] IN
    /\ q.pc = "stream"
    /\ q.total_size = 0 \/ n <= q.total_size
    /\ IF n > max_file_size
       THEN IF exists(files, q.dl_path)
            THEN Except(r, q1, remove(files, q.dl_path), "SizeExceeded")
            ELSE Except(r, q1, files, "FileNotFound")     \* os.remove raised
       ELSE /\ req' = [req EXCEPT ![r] = q1]
            /\ files' = write(files, q.dl_path, r, n)
    /\ UNCHANGED <<cfg, is_connected, phase>>

\* the body ends: download_file returns and send_file starts
end_of_body(r) ==
    LET q == req[r] IN
    /\ q.pc = "stream"
    /\ q.total_size = 0 \/ q.downloaded_size = q.total_size
    /\ send_file(r, [q EXCEPT !.temp_file_path = q.dl_path], q.dl_path)
    /\ UNCHANGED <<cfg, is_connected, phase>>

\* the connection breaks or the session timeout fires while the body is read
stream_error(r) ==
    /\ req[r].pc = "stream"
    /\ Except(r, req[r], files, "NetworkError")
    /\ UNCHANGED <<cfg, is_connected, phase>>

\* context.bot.send_document of _send_via_bot_api returns or raises
bot_send_document(r) ==
    /\ req[r].pc = "bot_send"
    /\ \E ok \in BOOLEAN : AfterSend(r, req[r], files, ok)
    /\ UNCHANGED <<cfg, is_connected, phase>>

\* the "File too large" message of send_file, lines 261-275
too_large_msg(r) ==
    /\ req[r].pc = "too_large_msg"
    /\ AfterSend(r, req[r], files, FALSE)
    /\ UNCHANGED <<cfg, is_connected, phase>>

\* the progress message of send_file, lines 239-249, then send_large_document
progress_msg(r) ==
    /\ req[r].pc = "progress_msg"
    /\ \E ok \in BOOLEAN :
          IF ok
          THEN send_large_document(r, req[r], req[r].temp_file_path)
          ELSE AfterSend(r, req[r], files, FALSE) /\ UNCHANGED is_connected
    /\ UNCHANGED <<cfg, phase>>

\* app.start() of send_large_document, lines 116-122, returns or raises
mt_start(r) ==
    /\ req[r].pc = "mt_start"
    /\ \E answer \in {"ok", "error", "flood"} :
          IF answer = "ok"
          THEN is_connected' = TRUE /\ MtBody(r, req[r])
          ELSE /\ MtReturn(r, req[r], FALSE, IF answer = "flood" THEN "FloodWait" ELSE "start")
               /\ UNCHANGED is_connected
    /\ UNCHANGED <<cfg, phase>>

\* app.get_chat, lines 129-134: whatever it raises is logged and ignored
mt_chat(r) ==
    /\ req[r].pc = "mt_chat"
    /\ req' = [req EXCEPT ![r].pc = "mt_upload", ![r].mt_uploads = @ + 1]
    /\ UNCHANGED <<cfg, is_connected, phase, files>>

\* a send_large_document that treats FilePartMissing like a rate limit
mt_upload_retry(r) ==
    /\ req[r].pc = "mt_upload"
    /\ \/ \E answer \in {"message", "nothing", "error"} :
             MtReturn(r, req[r], answer = "message", IF answer = "message" THEN "none" ELSE answer)
       \/ \E w \in Waits :
             /\ req[r].mt_floods < MaxFloods
             /\ req' = [req EXCEPT ![r].pc = "mt_sleep", ![r].mt_floods = @ + 1,
                                   ![r].mt_fail = "FilePartMissing",
                                   ![r].flood_wait = w, ![r].sleep_for = w]
             /\ files' = files
    /\ UNCHANGED <<cfg, is_connected, phase>>

\* app.send_document, lines 138-163, returns a message, nothing, or raises
mt_upload(r) ==
    /\ req[r].pc = "mt_upload"
    /\ \/ \E answer \in {"message", "nothing", "FilePartMissing", "error"} :
             MtReturn(r, req[r], answer = "message", IF answer = "message" THEN "none" ELSE answer)
       \/ \E w \in Waits :
             /\ req[r].mt_floods < MaxFloods
             /\ req' = [req EXCEPT ![r].pc = "mt_sleep", ![r].mt_floods = @ + 1,
                                   ![r].flood_wait = w, ![r].sleep_for = w]
             /\ files' = files
    /\ UNCHANGED <<cfg, is_connected, phase>>

\* a handler that follows a sleep with another sleep, never calling again
mt_sleep_again(r) ==
    /\ req[r].pc = "mt_sleep"
    /\ \E w \in Waits \ {req[r].sleep_for} : req' = [req EXCEPT ![r].sleep_for = w]
    /\ UNCHANGED <<cfg, is_connected, phase, files>>

\* asyncio.sleep(e.value) is over: line 155 calls send_large_document again
mt_sleep(r) ==
    /\ req[r].pc = "mt_sleep"
    /\ send_large_document(r, [req[r] EXCEPT !.flood_wait = 0, !.sleep_for = 0],
                           req[r].mt_path)
    /\ UNCHANGED <<cfg, phase>>

\* context.bot.delete_message, lines 251-257; send_file returns success
del_msg(r) ==
    /\ req[r].pc = "del_msg"
    /\ AfterSend(r, req[r], files, req[r].mt_ok)
    /\ UNCHANGED <<cfg, is_connected, phase>>

\* the message sent by an except clause of download_and_send_file, lines 407-426
err_msg(r) ==
    /\ req[r].pc = "err_msg"
    /\ \E sent \in BOOLEAN : Return(r, req[r], files, IF sent THEN "false" ELSE "raised")
    /\ UNCHANGED <<cfg, is_connected, phase>>

\* the task of the request is cancelled while it is suspended in an await
Awaiting == {"head", "get", "stream", "bot_send", "too_large_msg", "progress_msg",
             "mt_start", "mt_chat", "mt_upload", "mt_sleep", "del_msg", "err_msg"}

cancel(r) ==
    /\ req[r].pc \in Awaiting
    /\ Return(r, req[r], files, "cancelled")
    /\ UNCHANGED <<cfg, is_connected, phase>>

\* main, lines 420-427: the stop signal arrived and the finally block has run
\* (updater.stop, application.stop, application.shutdown); the handlers in
\* progress have finished.  FileHandler.cleanup is not part of it.
shutdown ==
    /\ phase = "serving"
    /\ \A r \in Req : req[r].pc \in {"idle", "done"}
    /\ phase' = "stopped"
    /\ UNCHANGED <<cfg, is_connected, files, req>>

Next ==
    \/ initialize
    \/ shutdown
    \/ \E r \in Req :
          \/ download_and_send_file(r)
          \/ get_file_info(r)
          \/ session_get(r)
          \/ iter_chunked(r)
          \/ end_of_body(r)
          \/ stream_error(r)
          \/ bot_send_document(r)
          \/ too_large_msg(r)
          \/ progress_msg(r)
          \/ mt_start(r)
          \/ mt_chat(r)
          \/ mt_upload(r)
          \/ mt_sleep(r)
          \/ del_msg(r)
          \/ err_msg(r)
          \/ cancel(r)

Spec == Init /\ [][Next]_vars

TypeOK ==
    /\ max_file_size \in MaxFileSizeChoices
    /\ is_connected \in BOOLEAN
    /\ \A r \in Req : req[r].pc \in Awaiting \cup {"idle", "done"}

\* ---- claims ------------------------------------------------------------------

\* the requests that opened (created or truncated) the file now at path p
Holders(p) == files[p].owners
\* r has left a file it wrote in the scratch directory
Leftover(r) == \E p \in Paths : r \in Holders(p)
\* send_large_document is running for r
InSendLarge(r) == req[r].pc \in {"mt_start", "mt_chat", "mt_upload", "mt_sleep"}

\* C1: once download_and_send_file has returned, whatever the outcome, no file
\* the request created is left in the scratch directory.
C1_NoLeftoverAfterReturn ==
    \A r \in Req : req[r].pc = "done" => ~Leftover(r)

\* C2: a file larger than 50 MB, secondary transport unavailable: send_file
\* selects SplitFallback (chunks sent through the primary transport).
C2_SplitFallbackSelected ==
    \A r \in Req :
        (req[r].file_size > bot_api_limit /\ ~is_available)
            => req[r].strategy = "SplitFallback"

\* C3: a file of at most 50 MB goes the Direct path with exactly one primary
\* send_document call, successful or not: no second call, no secondary send.
C3_DirectExactlyOneSend ==
    \A r \in Req :
        (req[r].file_size >= 0 /\ req[r].file_size <= bot_api_limit)
            => /\ req[r].strategy = "Direct"
               /\ req[r].bot_docs = 1
               /\ req[r].mt_calls = 0
               /\ req[r].mt_uploads = 0

\* C3 witness: a file of exactly 50 MB was sent Direct, the send failed, the
\* request is over and one send_document call was made.
C3_Witness ==
    \E r \in Req :
        /\ req[r].pc = "done"
        /\ req[r].file_size = bot_api_limit
        /\ req[r].strategy = "Direct"
        /\ req[r].result = "false"
        /\ req[r].bot_docs = 1

\* C4: a file larger than 50 MB with is_available() true: send_file delegates
\* to send_large_document and makes no primary send_document call.
C4_SecondaryDelegates ==
    \A r \in Req :
        (req[r].file_size > bot_api_limit /\ is_available
           /\ req[r].pc = "done" /\ req[r].result # "cancelled")
            => /\ req[r].strategy = "SecondaryLarge"
               /\ req[r].mt_calls >= 1
               /\ req[r].bot_docs = 0

\* C5: when the bytes streamed exceed max_size, download_file fails with the
\* size-exceeded error and the partial file is gone.
C5_OverflowFailsSizeExceeded ==
    \A r \in Req :
        req[r].downloaded_size > max_file_size
            => /\ req[r].pc \in {"err_msg", "done"}
               /\ req[r].err = "SizeExceeded"
               /\ ~Leftover(r)

\* C6: a request cancelled inside download_file leaves no partial file behind.
C6_CancelRemovesPartialFile ==
    \A r \in Req :
        (req[r].pc = "done" /\ req[r].result = "cancelled"
           /\ req[r].temp_file_path = NoPath)
            => ~Leftover(r)

\* C7: two requests in flight never have the same staged file path.
C7_DistinctStagedPaths ==
    \A r1, r2 \in Req :
        (r1 # r2 /\ req[r1].pc \notin {"idle", "head", "done"}
                 /\ req[r2].pc \notin {"idle", "head", "done"})
            => req[r1].dl_path # req[r2].dl_path

\* C8: app.start is never in progress for two requests at once.
C8_NoDoubleStart ==
    \A r1, r2 \in Req :
        (req[r1].pc = "mt_start" /\ req[r2].pc = "mt_start") => r1 = r2

\* C9: each FloodWait of the upload is followed by a sleep of its value and by
\* exactly one retry of the same send: a call that was rate-limited has made
\* as many uploads (app.send_document calls) as it received signals, plus one,
\* when it returns.
C9_OneRetryPerFloodWait ==
    \A r \in Req :
        /\ req[r].pc = "mt_sleep" => req[r].sleep_for = req[r].flood_wait
        /\ InSendLarge(r) => req[r].mt_path = req[r].temp_file_path
        /\ (req[r].pc = "del_msg" /\ req[r].mt_floods >= 1)
              => req[r].mt_uploads = req[r].mt_floods + 1

\* C10: send_large_document never returns failure because of a FloodWait.
C10_FloodWaitNeverSurfaces ==
    \A r \in Req : req[r].mt_fail # "FloodWait"

\* C11: when record_download raises after the file was delivered, the request
\* still reports success and sends no failure message.
C11_RecordFailureKeepsSuccess ==
    \A r \in Req :
        req[r].err = "RecordError"
            => /\ req[r].pc # "err_msg"
               /\ req[r].pc = "done" => req[r].result = "true"

\* C12: once the shutdown sequence of main has completed, the scratch
\* directory has been removed and the secondary session has been stopped.
C12_ShutdownRemovesScratchDir ==
    phase = "stopped" => (~temp_dir /\ ~is_connected)

\* ---- utils.sanitize_filename -------------------------------------------------
\* A filename is a sequence of characters (one-character strings).

\* utils.py line 71: the length cap
MaxNameLen == 255
\* utils.py line 65: the character class [<>:"/\\|?*]
InvalidChars == {"<", ">", ":", "\"", "/", "\\", "|", "?", "*"}
\* utils.py line 68: [\x00-\x1f\x7f], as far as a string constant can spell it
ControlChars == {"\t", "\n", "\r", "\f"}
\* what str.strip() removes
Whitespace == {" ", "\t", "\n", "\r", "\f"}
\* "download.bin"
DefaultName == <<"d", "o", "w", "n", "l", "o", "a", "d", ".", "b", "i", "n">>

Min(a, b) == IF a <= b THEN a ELSE b

\* re.sub(r'[<>:"/\\|?*]', '_', filename)
sub_invalid(s) == [i \in 1 .. Len(s) |-> IF s[i] \in InvalidChars THEN "_" ELSE s[i]]

NotControl(c) == c \notin ControlChars
\* re.sub(r'[\x00-\x1f\x7f]', '', filename)
del_control(s) == SelectSeq(s, NotControl)

\* s[:k] of Python: a negative k counts from the end
slice_to(s, k) ==
    IF k >= 0 THEN SubSeq(s, 1, Min(k, Len(s)))
    ELSE SubSeq(s, 1, Max(0, Len(s) + k))

\* os.path.splitext on a name without separators: the extension starts at the
\* last dot, unless only dots come before it
splitext(s) ==
    LET dots == {i \in 1 .. Len(s) : s[i] = "."}
        d == IF dots = {} THEN 0 ELSE CHOOSE i \in dots : \A j \in dots : j <= i
    IN IF d > 0 /\ \E j \in 1 .. (d - 1) : s[j] # "."
       THEN <<SubSeq(s, 1, d - 1), SubSeq(s, d, Len(s))>>
       ELSE <<s, <<>>>>

\* str.strip()
strip(s) ==
    LET keep == {i \in 1 .. Len(s) : s[i] \notin Whitespace}
    IN IF keep = {} THEN <<>>
       ELSE SubSeq(s, CHOOSE i \in keep : \A j \in keep : i <= j,
                      CHOOSE i \in keep : \A j \in keep : j <= i)

\* utils.sanitize_filename, lines 62-80
sanitize_filename(filename) ==
    LET f1 == del_control(sub_invalid(filename))
        f2 == IF Len(f1) > MaxNameLen
              THEN LET ne == splitext(f1)
                       max_name_length == MaxNameLen - Len(ne[2])
                   IN slice_to(ne[1], max_name_length) \o ne[2]
              ELSE f1
        f3 == IF strip(f2) = <<>> THEN DefaultName ELSE f2
    IN strip(f3)

\* n copies of the character c
Rep(c, n) == [i \in 1 .. n |-> c]

\* the filenames tried: [space] c1*n1 [.] c2*n2 [space]
NameLens == {0, 1, 254, 255, 256}
ExtLens == {0, 1, 3, 260}
SanitizeInputs ==
    {lead \o Rep(c1, n1) \o dot \o Rep(c2, n2) \o tail :
        lead \in {<<>>, <<" ">>}, c1 \in {"a", "/"}, n1 \in NameLens,
        dot \in {<<>>, <<".">>}, c2 \in {"b", "\t"}, n2 \in ExtLens,
        tail \in {<<>>, <<" ">>}}

\* ---- the pure functions, called on their own ----------------------------------

\* the state of the download pipeline, which a pure function leaves alone
pipeline == <<max_file_size, PYROGRAM_AVAILABLE, api_id, api_hash, app, is_connected,
              phase, files, req, temp_dir, mt_temp_dir>>

\* the handlers as constructed under the default configuration
Constructed ==
    /\ max_file_size = MaxFileSizeDefault
    /\ PYROGRAM_AVAILABLE = TRUE
    /\ api_id = GoodId
    /\ api_hash = SomeHash
    /\ app = InitClient(PYROGRAM_AVAILABLE, api_id, api_hash)
    /\ is_connected = FALSE
    /\ phase = "init"
    /\ files = [p \in Paths |-> NoFile]
    /\ req = [r \in Req |-> NewReq]
    /\ temp_dir = TRUE
    /\ mt_temp_dir = TRUE

\* a call about to be made: sanitize_filename(arg)
SanitizeCalls ==
    {[op |-> "sanitize_filename", arg |-> f, step |-> 0, out |-> <<>>, out2 |-> <<>>] :
        f \in SanitizeInputs}

\* the file sizes sent through the primary transport (at most 50 MB)
SendSizes == {0, 1, 5 * MB, 10 * MB, 10 * MB + 1, 20 * MB, 24 * MB, 30 * MB,
              bot_api_limit}

\* the timeout arguments of a send_document call: none given, or read_timeout =
\* write_timeout = seconds
NoTimeout == [given |-> FALSE, seconds |-> 0]

\* FileHandler.send_file_to_telegram, lines 177-195
send_file_to_telegram_timeout(file_size) ==
    IF file_size > 10 * MB
    THEN [given |-> TRUE, seconds |-> Min(300, Max(60, (file_size \div MB) * 10))]
    ELSE NoTimeout

\* HybridFileHandler._send_via_bot_api, lines 291-296
send_via_bot_api_timeout(file_size) == NoTimeout

\* a call about to be made: a primary-transport sender on a file of arg KiB
SendCalls ==
    {[op |-> o, arg |-> s, step |-> 0, out |-> NoTimeout, out2 |-> NoTimeout] :
        o \in {"send_file_to_telegram", "send_via_bot_api"}, s \in SendSizes}

\* the characters '0' .. '9' by value
DigitSeq == <<"0", "1", "2", "3", "4", "5", "6", "7", "8", "9">>

\* str(k) for k >= 0
RECURSIVE decimal(_)
decimal(k) ==
    IF k < 10 THEN <<DigitSeq[k + 1]>>
    ELSE decimal(k \div 10) \o <<DigitSeq[(k % 10) + 1]>>

\* f"{k:0Wd}": zero-padded to at least width characters
zero_padded(k, width) ==
    LET d == decimal(k)
    IN IF Len(d) < width THEN Rep("0", width - Len(d)) \o d ELSE d

\* f"{chunk_num:d}": no padding
format_d(chunk_num) == zero_padded(chunk_num, 1)

\* f"{chunk_num:03d}"
format_03d(chunk_num) == zero_padded(chunk_num, 3)

DotPart == <<".", "p", "a", "r", "t">>

\* split_file, lines 275-276: f"{name}.part{chunk_num:03d}{ext}"
chunk_filename(filename, chunk_num) ==
    LET ne == splitext(filename)
    IN ne[1] \o DotPart \o format_03d(chunk_num) \o ne[2]

\* generate_reassembly_instructions, lines 293-315: what the text says. Each
\* command lists "{name}.part001{ext}", "{name}.part002{ext}" and then "...".
generate_reassembly_instructions(filename, num_chunks) ==
    LET ne == splitext(filename)
        listed == <<ne[1] \o DotPart \o <<"0", "0", "1">> \o ne[2],
                    ne[1] \o DotPart \o <<"0", "0", "2">> \o ne[2]>>
    IN [num_chunks |-> num_chunks,
        windows |-> listed,          \* copy /b a+b+... target
        linux |-> listed,            \* cat a b ... > target
        ellipsis |-> TRUE,
        target |-> filename]

\* the filenames the naming functions are tried on: a.bin, a, .a, a.tar.gz
SplitNames == {<<"a", ".", "b", "i", "n">>, <<"a">>, <<".", "a">>,
               <<"a", ".", "t", "a", "r", ".", "g", "z">>}

\* the most chunks instructions are generated for
MaxListed == 4

InstructionCalls ==
    {[op |-> "generate_reassembly_instructions", arg |-> <<f, n>>, step |-> 0,
      out |-> <<>>, out2 |-> <<>>] : f \in SplitNames, n \in 1 .. MaxListed}

\* the most chunks a split produces: a file at the 2 GB ceiling, in 45 MB chunks
MaxChunkCount == (MAX_LARGE_FILE_SIZE + 45 * MB - 1) \div (45 * MB)

\* the chunk_num-th pass of the loop of split_file names its chunk
NamingCalls ==
    {[op |-> "chunk_filename", arg |-> <<f, k>>, step |-> 0,
      out |-> <<>>, out2 |-> <<>>] : f \in SplitNames, k \in 1 .. MaxChunkCount}

InitFn ==
    /\ Constructed
    /\ split = NoCall
    /\ bot = NoCall
    /\ \/ fn \in SanitizeCalls
       \/ fn \in SendCalls
       \/ fn \in InstructionCalls
       \/ fn \in NamingCalls

\* out = sanitize_filename(arg)
sanitize ==
    /\ fn.op = "sanitize_filename"
    /\ fn.step = 0
    /\ fn' = [fn EXCEPT !.step = 1, !.out = sanitize_filename(fn.arg)]
    /\ UNCHANGED <<pipeline, split, bot>>

\* out2 = sanitize_filename(out)
sanitize_again ==
    /\ fn.op = "sanitize_filename"
    /\ fn.step = 1
    /\ fn' = [fn EXCEPT !.step = 2, !.out2 = sanitize_filename(fn.out)]
    /\ UNCHANGED <<pipeline, split, bot>>

\* send_file_to_telegram reaches its send_document call
send_file_to_telegram ==
    /\ fn.op = "send_file_to_telegram"
    /\ fn.step = 0
    /\ fn' = [fn EXCEPT !.step = 1, !.out = send_file_to_telegram_timeout(fn.arg)]
    /\ UNCHANGED <<pipeline, split, bot>>

\* _send_via_bot_api, the sender send_file uses, reaches its send_document call
send_via_bot_api ==
    /\ fn.op = "send_via_bot_api"
    /\ fn.step = 0
    /\ fn' = [fn EXCEPT !.step = 1, !.out = send_via_bot_api_timeout(fn.arg)]
    /\ UNCHANGED <<pipeline, split, bot>>

\* instructions = self.generate_reassembly_instructions(filename, len(chunks))
reassembly_instructions ==
    /\ fn.op = "generate_reassembly_instructions"
    /\ fn.step = 0
    /\ fn' = [fn EXCEPT !.step = 1,
                        !.out = generate_reassembly_instructions(fn.arg[1], fn.arg[2])]
    /\ UNCHANGED <<pipeline, split, bot>>

\* split_file, lines 275-284: the name of chunk chunk_num (out), and after
\* chunk_num += 1 the name of the next (out2)
name_chunks ==
    /\ fn.op = "chunk_filename"
    /\ fn.step = 0
    /\ fn' = [fn EXCEPT !.step = 1,
                        !.out = chunk_filename(fn.arg[1], fn.arg[2]),
                        !.out2 = chunk_filename(fn.arg[1], fn.arg[2] + 1)]
    /\ UNCHANGED <<pipeline, split, bot>>

NextFn ==
    \/ sanitize
    \/ sanitize_again
    \/ send_file_to_telegram
    \/ send_via_bot_api
    \/ reassembly_instructions
    \/ name_chunks

SpecFn == InitFn /\ [][NextFn]_vars

\* C13: sanitize_filename is idempotent, never returns the empty string, and
\* returns at most 255 characters.
C13_SanitizeIdempotentBounded ==
    (fn.op = "sanitize_filename" /\ fn.step = 2)
        => /\ fn.out2 = fn.out
           /\ fn.out # <<>>
           /\ Len(fn.out) <= MaxNameLen

\* ---- FileHandler.split_file and split_and_send_file, called on their own ------
\* Nothing in the bot calls them; a call is modelled as a test would make it.
\* Sizes in this part are bytes: a file is the byte offsets 0 .. size - 1 and a
\* chunk file holds the offsets lo .. hi - 1 of the source.

\* the most chunk writes after which an I/O error is tried
MaxParts == 3

\* FileHandler.chunk_size
chunk_size == 45 * 1024 * 1024

SplitSizes == {0, 1, chunk_size - 1, chunk_size, chunk_size + 1,
               2 * chunk_size, 2 * chunk_size + 1, 3 * chunk_size}

\* a read that stops one byte short of the n bytes asked for
read_short(size, pos, n) == Min(n - 1, size - pos)

\* infile.read(n) at offset pos of a file of size bytes: the number of bytes read
read(size, pos, n) == Min(n, size - pos)

\* the loop of split_file; the fail_at-th chunk write raises (0: none does)
RECURSIVE SplitLoop(_, _, _, _)
SplitLoop(size, pos, parts, fail_at) ==
    LET got == read(size, pos, chunk_size)
    IN IF got = 0
       THEN [parts |-> parts, raised |-> FALSE]
       ELSE IF Len(parts) + 1 = fail_at
            \* open(chunk_path, 'wb') created the file, write raised
            THEN [parts |-> Append(parts, [lo |-> pos, hi |-> pos, on_disk |-> TRUE]),
                  raised |-> TRUE]
            ELSE SplitLoop(size, pos + got,
                           Append(parts, [lo |-> pos, hi |-> pos + got, on_disk |-> TRUE]),
                           fail_at)

\* a split_file that returns its chunks last first
split_file_reversed(size, fail_at) ==
    LET l == SplitLoop(size, 0, <<>>, fail_at)
    IN [chunks |-> IF l.raised THEN <<>>
                   ELSE [k \in 1 .. Len(l.parts) |-> Len(l.parts) + 1 - k],
        parts |-> l.parts,
        raised |-> l.raised]

\* split_file: the list returned (chunk numbers, in order) and the chunk files
split_file(size, fail_at) ==
    LET l == SplitLoop(size, 0, <<>>, fail_at)
    IN [chunks |-> IF l.raised THEN <<>> ELSE [k \in 1 .. Len(l.parts) |-> k],
        parts |-> l.parts,
        raised |-> l.raised]

SplitCalls ==
    {[op |-> "split_and_send_file", pc |-> "start", size |-> s,
      chunks |-> <<>>, parts |-> <<>>, raised |-> FALSE, i |-> 0,
      log |-> <<>>, sent |-> {}, result |-> "none"] : s \in SplitSizes}

InitSplit ==
    /\ Constructed
    /\ fn = NoCall
    /\ bot = NoCall
    /\ split \in SplitCalls

\* split_and_send_file returns v
SplitReturn(s, v) == [s EXCEPT !.pc = "done", !.result = v]

\* a loop body whose finally leaves the chunk file on disk
SplitNext_keep(s) ==
    [s EXCEPT !.i = s.i + 1,
              !.pc = IF s.i = Len(s.chunks) THEN "instructions" ELSE "chunk"]

\* the finally of the loop body: os.remove(chunk_path), then the next iteration
\* or the instructions
SplitNext(s) ==
    [s EXCEPT !.parts[s.chunks[s.i]].on_disk = FALSE,
              !.i = s.i + 1,
              !.pc = IF s.i = Len(s.chunks) THEN "instructions" ELSE "chunk"]

\* lines 319-341: chunks = await self.split_file(...); if not chunks: return False;
\* up to the await of the introduction message
split_chunks ==
    /\ split.op = "split_and_send_file"
    /\ split.pc = "start"
    /\ \E fail_at \in 0 .. MaxParts :
          LET f == split_file(split.size, fail_at)
              s == [split EXCEPT !.chunks = f.chunks, !.parts = f.parts,
                                 !.raised = f.raised]
          IN split' = IF f.chunks = <<>> THEN SplitReturn(s, "false")
                      ELSE [s EXCEPT !.pc = "intro"]
    /\ UNCHANGED <<pipeline, fn, bot>>

\* lines 337-341: the introduction send_message returns or raises
intro_msg ==
    /\ split.op = "split_and_send_file"
    /\ split.pc = "intro"
    /\ \E ok \in BOOLEAN :
          split' = IF ok THEN [split EXCEPT !.pc = "chunk", !.i = 1]
                   ELSE SplitReturn(split, "false")
    /\ UNCHANGED <<pipeline, fn, bot>>

\* lines 344-354: the loop reaches chunk i and awaits send_document
chunk_send ==
    /\ split.op = "split_and_send_file"
    /\ split.pc = "chunk"
    /\ split' = [split EXCEPT !.pc = "chunk_sending",
                              !.log = Append(@, <<"attempt", split.i>>)]
    /\ UNCHANGED <<pipeline, fn, bot>>

\* lines 349-369: send_document returns (finally removes the chunk file) or
\* raises (the except clause awaits the failure notice)
chunk_sent ==
    /\ split.op = "split_and_send_file"
    /\ split.pc = "chunk_sending"
    /\ \E ok \in BOOLEAN :
          split' = IF ok
                   THEN SplitNext([split EXCEPT !.sent = @ \cup {split.i},
                                                !.log = Append(@, <<"sent", split.i>>)])
                   ELSE [split EXCEPT !.pc = "fail_notice",
                                      !.log = Append(@, <<"failed", split.i>>)]
    /\ UNCHANGED <<pipeline, fn, bot>>

\* lines 358-369: the "Failed to send part" send_message returns, or raises out of
\* the loop into the outer except; the finally removes the chunk file either way
fail_notice ==
    /\ split.op = "split_and_send_file"
    /\ split.pc = "fail_notice"
    /\ \E ok \in BOOLEAN :
          split' = IF ok THEN SplitNext(split)
                   ELSE SplitReturn([split EXCEPT !.parts[split.chunks[split.i]].on_disk = FALSE],
                                    "false")
    /\ UNCHANGED <<pipeline, fn, bot>>

\* lines 371-383: the reassembly instructions send_message returns or raises
instructions_msg ==
    /\ split.op = "split_and_send_file"
    /\ split.pc = "instructions"
    /\ \E ok \in BOOLEAN :
          split' = SplitReturn([split EXCEPT !.log = Append(@, <<"instructions", 0>>)],
                               IF ok THEN "true" ELSE "false")
    /\ UNCHANGED <<pipeline, fn, bot>>

NextSplit ==
    \/ split_chunks
    \/ intro_msg
    \/ chunk_send
    \/ chunk_sent
    \/ fail_notice
    \/ instructions_msg

SpecSplit == InitSplit /\ [][NextSplit]_vars

\* ceil(a / b)
CeilDiv(a, b) == (a + b - 1) \div b

\* split_file has returned
SplitReturned == split.op = "split_and_send_file" /\ split.pc # "start"

\* the size of the k-th chunk of the returned list
ChunkLen(k) == split.parts[split.chunks[k]].hi - split.parts[split.chunks[k]].lo

\* the returned list has ceil(size / chunk_size) chunks, every one full but the last
CountAndSizes ==
    /\ Len(split.chunks) = CeilDiv(split.size, chunk_size)
    /\ \A k \in 1 .. Len(split.chunks) :
          /\ ChunkLen(k) >= 1
          /\ ChunkLen(k) <= chunk_size
          /\ k < Len(split.chunks) => ChunkLen(k) = chunk_size

\* C14 as stated: for every file of at least one byte split_file returns exactly
\* ceil(s / c) chunks, each of at most c bytes, only the last possibly shorter.
C14_ChunkCount ==
    (SplitReturned /\ split.size >= 1) => CountAndSizes

\* C14, amended: the count and the sizes are as stated unless an I/O error
\* occurs while splitting, in which case split_file returns the empty list.
C14_ChunkCountUnlessIOError ==
    SplitReturned
        => IF split.raised THEN split.chunks = <<>>
           ELSE CountAndSizes

\* a file one byte longer than two chunks came back as three chunks
C14_Witness ==
    /\ SplitReturned
    /\ ~split.raised
    /\ split.size = 2 * chunk_size + 1
    /\ Len(split.chunks) = 3

\* the chunks of the returned list, read in list order, are the bytes
\* 0 .. size - 1 of the source, each once and in order
RoundTrips ==
    LET n == Len(split.chunks)
        part(k) == split.parts[split.chunks[k]]
    IN IF n = 0 THEN split.size = 0
       ELSE /\ part(1).lo = 0
            /\ part(n).hi = split.size
            /\ \A k \in 1 .. n : part(k).lo < part(k).hi
            /\ \A k \in 1 .. (n - 1) : part(k).hi = part(k + 1).lo

\* C15 as stated: for every input file the chunks split_file returns,
\* concatenated in index order, reproduce the original bytes exactly.
C15_RoundTrip ==
    SplitReturned => RoundTrips

\* C15, amended: the chunks returned reproduce the original bytes whenever no
\* I/O error occurred while splitting (after one, nothing is returned).
C15_RoundTripUnlessIOError ==
    (SplitReturned /\ ~split.raised) => RoundTrips

\* a file of exactly three chunks was split
C15_Witness ==
    /\ SplitReturned
    /\ ~split.raised
    /\ split.size = 3 * chunk_size
    /\ Len(split.chunks) = 3
    /\ RoundTrips

IsAttempt(e) == e[1] = "attempt"
\* the send_document calls made for chunks, in the order made
Attempts == SelectSeq(split.log, IsAttempt)

\* C16: chunk sends are attempted in increasing index order, one at a time; a
\* failed send of chunk i does not prevent the attempts for chunks i+1..n; the
\* reassembly instructions are sent after the last chunk attempt.
C16_InOrderPastFailures ==
    split.op = "split_and_send_file"
        => /\ \A k \in 1 .. Len(Attempts) : Attempts[k][2] = k
           /\ \A k \in 1 .. (Len(split.log) - 1) :
                 split.log[k][1] = "attempt"
                     => /\ split.log[k + 1][1] \in {"sent", "failed"}
                        /\ split.log[k + 1][2] = split.log[k][2]
           /\ \A k \in 1 .. Len(split.log) :
                 split.log[k][1] = "instructions"
                     => k = Len(split.log) /\ Len(Attempts) = Len(split.chunks)
           /\ (split.pc = "done" /\ Len(Attempts) >= 1)
                 => /\ Len(Attempts) = Len(split.chunks)
                    /\ split.log[Len(split.log)][1] = "instructions"

\* C17: split_and_send_file reports success exactly when at least one chunk was
\* sent.
C17_SuccessIffSomeChunkSent ==
    (split.op = "split_and_send_file" /\ split.pc = "done")
        => (split.result = "true" <=> split.sent # {})

\* both credentials are configured and the client object exists
CredentialsAndSession == app /\ truthy(api_id) /\ truthy(api_hash)

\* C18: is_available() is true only when TELEGRAM_API_ID and TELEGRAM_API_HASH
\* are configured and the client object exists; where either is missing it is
\* false, and no file is then handed to the secondary transport.
C18_AvailableOnlyWithCredentialsAndSession ==
    /\ is_available => CredentialsAndSession
    /\ ~CredentialsAndSession => ~is_available
    /\ \A r \in Req : req[r].strategy = "SecondaryLarge" => CredentialsAndSession

\* is_available() was true and sent a file to the secondary transport
C18_Witness ==
    /\ is_available
    /\ \E r \in Req : req[r].strategy = "SecondaryLarge" /\ req[r].mt_calls >= 1

\* C19: when the size the probe advertised exceeds 2 GB, download_file fails
\* before the GET is issued and before any file is created, whatever
\* max_file_size is.
C19_HardCeilingBeforeTransfer ==
    \A r \in Req :
        req[r].head_size > MAX_LARGE_FILE_SIZE
            => /\ req[r].pc \in {"err_msg", "done"}
               /\ req[r].err = "HardCeiling"
               /\ req[r].gets = 0
               /\ req[r].dl_path = NoPath
               /\ ~Leftover(r)
               /\ req[r].result # "true"

\* a probe advertised more than 2 GB under the larger caller ceiling and the
\* request has ended
C19_Witness ==
    /\ max_file_size = 100 * MB
    /\ \E r \in Req :
          /\ req[r].head_size = MAX_LARGE_FILE_SIZE + 1
          /\ req[r].pc = "done"
          /\ req[r].result = "false"

\* C20: every primary-transport document send is made with a timeout of
\* min(300, 60 + 10 * sizeMB) seconds.
C20_TimeoutScalesWithSize ==
    (fn.op \in {"send_file_to_telegram", "send_via_bot_api"} /\ fn.step = 1)
        => /\ fn.out.given
           /\ fn.out.seconds = Min(300, 60 + 10 * (fn.arg \div MB))

\* the names of chunks 1 .. n of filename, in index order
AllChunkNames(filename, n) == [k \in 1 .. n |-> chunk_filename(filename, k)]

\* C21: for every filename and chunk count n >= 1 both commands of the
\* reassembly instructions name each of the n chunk files, in index order.
C21_InstructionsNameEveryChunk ==
    (fn.op = "generate_reassembly_instructions" /\ fn.step = 1)
        => /\ fn.out.windows = AllChunkNames(fn.arg[1], fn.arg[2])
           /\ fn.out.linux = AllChunkNames(fn.arg[1], fn.arg[2])

\* the call for r returns in this step, download_file having returned a file
ReturnsStaged(r) ==
    /\ req[r].pc # "done"
    /\ req'[r].pc = "done"
    /\ req'[r].temp_file_path # NoPath

ChunksOnDisk == {k \in 1 .. Len(split.parts) : split.parts[k].on_disk}

\* C23: whenever split_file created chunk files, none of them is left once
\* split_and_send_file has returned, whatever the outcome of the splitting, the
\* sends and the messages.
C23_NoChunkLeftAfterReturn ==
    (split.op = "split_and_send_file" /\ split.pc = "done") => ChunksOnDisk = {}

\* the indices of the chunks whose send attempt is over
AttemptOver ==
    {k \in 1 .. Len(split.chunks) :
        \/ k < split.i
        \/ k = split.i /\ split.pc = "done"}

PermanentFailures == {"FilePartMissing", "error"}

\* C25: when the upload is rejected permanently (FilePartMissing) or fails with
\* any error other than a rate-limit signal, send_large_document returns failure
\* with no further upload attempt and no sleep.
C25_PermanentFailureNoRetry ==
    [][\A r \in Req :
          /\ req'[r].mt_fail \in PermanentFailures
                => /\ ~req'[r].mt_ok
                   /\ req'[r].pc \in {"del_msg", "err_msg", "done"}
                   /\ req'[r].sleep_for = 0
                   /\ req'[r].result # "true"
          /\ req[r].mt_fail \in PermanentFailures
                => /\ req'[r].mt_uploads = req[r].mt_uploads
                   /\ req'[r].mt_calls = req[r].mt_calls
                   /\ req'[r].mt_fail = req[r].mt_fail]_vars

\* an upload retried after a rate limit was then rejected with FilePartMissing,
\* and the request has ended
C25_Witness ==
    \E r \in Req :
        /\ req[r].mt_fail = "FilePartMissing"
        /\ req[r].mt_floods >= 1
        /\ req[r].mt_uploads = req[r].mt_floods + 1
        /\ req[r].pc = "done"
        /\ req[r].result = "false"

\* the steps of send_large_document for r: the awaited start, chat lookup and
\* upload complete, and the sleep ends
MtStep(r) == mt_start(r) \/ mt_chat(r) \/ mt_upload(r) \/ mt_sleep(r)

\* the configurations under which files above 50 MB are downloaded: the larger
\* ceiling, with the secondary transport configured or its api id missing
InitLive ==
    /\ Init
    /\ max_file_size = 100 * MB
    /\ PYROGRAM_AVAILABLE
    /\ api_id \in {GoodId, Unset}
    /\ api_hash = SomeHash

\* every call the secondary transport is awaiting completes, every sleep ends
SpecLive == InitLive /\ [][Next]_vars /\ \A r \in Req : WF_vars(MtStep(r))

\* C26: with finitely many rate-limit signals (at most MaxFloods per request),
\* each with a finite wait, send_large_document eventually returns.
C26_SendLargeReturns ==
    \A r \in Req : InSendLarge(r) ~> ~InSendLarge(r)

\* a request whose upload was rate-limited has left send_large_document
C26_Witness ==
    \E r \in Req :
        /\ req[r].mt_floods = MaxFloods
        /\ req[r].mt_uploads = MaxFloods + 1
        /\ req[r].pc = "del_msg"

\* the characters of the names tried, in code point order
CodeOrder == <<".", "0", "1", "2", "3", "4", "5", "6", "7", "8", "9",
               "a", "b", "g", "i", "n", "p", "r", "t", "z">>
Code(c) == CHOOSE i \in 1 .. Len(CodeOrder) : CodeOrder[i] = c

\* s < t as Python compares strings
RECURSIVE LexLess(_, _)
LexLess(s, t) ==
    IF t = <<>> THEN FALSE
    ELSE IF s = <<>> THEN TRUE
    ELSE IF s[1] = t[1] THEN LexLess(Tail(s), Tail(t))
    ELSE Code(s[1]) < Code(t[1])

\* the number a sequence of three digit characters spells
ThreeDigits(d) ==
    LET v(c) == (CHOOSE i \in 1 .. 10 : DigitSeq[i] = c) - 1
    IN 100 * v(d[1]) + 10 * v(d[2]) + v(d[3])

\* C27: chunk k of name.ext is named name.partKKK.ext, KKK being k zero-padded
\* to 3 digits, and the name of chunk k+1 comes after it in filename order, for
\* every chunk count a split produces.
C27_ChunkNamesPaddedAndIncreasing ==
    (fn.op = "chunk_filename" /\ fn.step = 1)
        => LET ne == splitext(fn.arg[1])
               stem == Len(ne[1]) + Len(DotPart)
               kkk == SubSeq(fn.out, stem + 1, stem + 3)
           IN /\ Len(fn.out) = Len(fn.arg[1]) + Len(DotPart) + 3
              /\ SubSeq(fn.out, 1, stem) = ne[1] \o DotPart
              /\ \A i \in 1 .. 3 : kkk[i] \in Digits
              /\ ThreeDigits(kkk) = fn.arg[2]
              /\ SubSeq(fn.out, stem + 4, Len(fn.out)) = ne[2]
              /\ LexLess(fn.out, fn.out2)
              /\ ~LexLess(fn.out2, fn.out)

\* chunks 9 and 10 of a.tar.gz were named
C27_Witness ==
    /\ fn.op = "chunk_filename"
    /\ fn.step = 1
    /\ fn.arg = <<<<"a", ".", "t", "a", "r", ".", "g", "z">>, 9>>
    /\ fn.out = <<"a", ".", "t", "a", "r", ".", "p", "a", "r", "t", "0", "0", "9", ".", "g", "z">>
    /\ fn.out2 = <<"a", ".", "t", "a", "r", ".", "p", "a", "r", "t", "0", "1", "0", ".", "g", "z">>

MAX_DAILY_DOWNLOADS == 5
\* downloads rows of one day the model follows
MaxToday == 8
\* preview messages with live buttons per URL
MaxPreviews == 2
Urls == {1, 2}
NoUrl == 0
BonusChoices == {0, 1}

NoHandler == [path |-> "none", count |-> 0, delivered |-> 0, recorded |-> 0]

BotChats ==
    {[op |-> "chat", is_admin |-> a, bonus |-> b, rows |-> 0, delivered |-> 0,
      url_cache |-> {}, previews |-> [u \in Urls |-> 0],
      awaiting_rename |-> FALSE, rename_url |-> NoUrl, last |-> NoHandler]
        : a \in BOOLEAN, b \in BonusChoices}

InitBot ==
    /\ Constructed
    /\ fn = NoCall
    /\ split = NoCall
    /\ bot \in BotChats

\* Database.get_today_downloads_count: the user's downloads rows of today
get_today_downloads_count == bot.rows
\* Database.get_bonus_downloads: the user's referrals that have not expired
get_bonus_downloads == bot.bonus
\* the rows download_and_send_file (and ..._with_custom_name) inserts itself
pipeline_rows(ok) == IF ok THEN 1 ELSE 0

\* a handler ran the pipeline; it delivered the file iff ok, and n rows were
\* inserted by record_download on the way
Handled(path, ok, n) ==
    [bot EXCEPT !.rows = @ + n,
                !.delivered = @ + (IF ok THEN 1 ELSE 0),
                !.last = [path |-> path, count |-> bot.rows,
                          delivered |-> IF ok THEN 1 ELSE 0, recorded |-> n]]

\* a handler returned without running the pipeline
Answered(path) ==
    [bot EXCEPT !.last = [path |-> path, count |-> bot.rows,
                          delivered |-> 0, recorded |-> 0]]

\* handle_message reaches the limit check: the text is a URL and the user is
\* not answering a rename prompt
UrlMessage ==
    /\ bot.op = "chat"
    /\ ~bot.awaiting_rename

limit_reached ==
    /\ ~bot.is_admin
    /\ get_today_downloads_count >= MAX_DAILY_DOWNLOADS + get_bonus_downloads

\* handle_message, text without http:// or https://
not_a_url ==
    /\ UrlMessage
    /\ bot' = Answered("invalid")
    /\ UNCHANGED <<pipeline, fn, split>>

\* handle_message, "Daily limit reached!"
refuse ==
    /\ UrlMessage
    /\ limit_reached
    /\ bot' = Answered("refused")
    /\ UNCHANGED <<pipeline, fn, split>>

\* handle_message, get_file_info gave a name and a size: the URL is cached and
\* the two buttons are shown
preview(u) ==
    /\ UrlMessage
    /\ ~limit_reached
    /\ bot.previews[u] < MaxPreviews
    /\ bot' = [Answered("preview") EXCEPT !.url_cache = @ \cup {u},
                                           !.previews[u] = @ + 1]
    /\ UNCHANGED <<pipeline, fn, split>>

\* handle_message, no file info: the pipeline runs at once, and after a
\* delivery handle_message calls record_download itself
direct_download(ok) ==
    /\ UrlMessage
    /\ ~limit_reached
    /\ bot.rows + 2 <= MaxToday
    /\ bot' = Handled("direct", ok, pipeline_rows(ok) + (IF ok THEN 1 ELSE 0))
    /\ UNCHANGED <<pipeline, fn, split>>

\* a button of a preview message of u is pressed; the edit that answers it
\* takes the buttons away
Pressed(u) ==
    /\ bot.op = "chat"
    /\ bot.previews[u] > 0

\* handle_callback_query, 'download:' with the URL still cached
download_now(u, ok) ==
    /\ Pressed(u)
    /\ u \in bot.url_cache
    /\ bot.rows + 1 <= MaxToday
    /\ bot' = [Handled("button", ok, pipeline_rows(ok)) EXCEPT !.previews[u] = @ - 1]
    /\ UNCHANGED <<pipeline, fn, split>>

\* handle_callback_query, 'rename:' with the URL still cached
rename_button(u) ==
    /\ Pressed(u)
    /\ u \in bot.url_cache
    /\ bot' = [Answered("rename_prompt") EXCEPT !.previews[u] = @ - 1,
                                                 !.rename_url = u,
                                                 !.awaiting_rename = TRUE]
    /\ UNCHANGED <<pipeline, fn, split>>

\* handle_callback_query, either button, "URL not found"
url_not_found(u) ==
    /\ Pressed(u)
    /\ u \notin bot.url_cache
    /\ bot' = [Answered("not_found") EXCEPT !.previews[u] = @ - 1]
    /\ UNCHANGED <<pipeline, fn, split>>

\* handle_message in rename mode: the text is the new file name
rename_reply(ok) ==
    /\ bot.op = "chat"
    /\ bot.awaiting_rename
    /\ bot.rename_url # NoUrl
    /\ bot.rows + 1 <= MaxToday
    /\ bot' = [Handled("rename", ok, pipeline_rows(ok)) EXCEPT !.awaiting_rename = FALSE,
                                                                !.rename_url = NoUrl]
    /\ UNCHANGED <<pipeline, fn, split>>

\* the process is started again: user_data lives in memory only, the messages
\* with their buttons and the downloads table stay
restart ==
    /\ bot.op = "chat"
    /\ bot.url_cache # {}
    /\ bot' = [bot EXCEPT !.url_cache = {}, !.awaiting_rename = FALSE,
                          !.rename_url = NoUrl, !.last = NoHandler]
    /\ UNCHANGED <<pipeline, fn, split>>

NextBot ==
    \/ not_a_url
    \/ refuse
    \/ \E u \in Urls : preview(u)
    \/ \E ok \in BOOLEAN : direct_download(ok)
    \/ \E u \in Urls, ok \in BOOLEAN : download_now(u, ok)
    \/ \E u \in Urls : rename_button(u)
    \/ \E u \in Urls : url_not_found(u)
    \/ \E ok \in BOOLEAN : rename_reply(ok)
    \/ restart

SpecBot == InitBot /\ [][NextBot]_vars

\* C29: every handler that runs the pipeline records a delivered file exactly
\* once (one downloads row per delivery) and a failed delivery not at all,
\* whether it is handle_message on a URL, the 'Download Now' callback or the
\* rename reply.
C29_DeliveryRecordedOnce == bot.last.recorded = bot.last.delivered

\* C30: a non-admin user never completes more downloads on one day than
\* MAX_DAILY_DOWNLOADS plus the bonus downloads, and no handler runs the
\* pipeline once the day's count has reached that limit.
C30_DailyLimitNeverExceeded ==
    ~bot.is_admin =>
        /\ bot.delivered <= MAX_DAILY_DOWNLOADS + bot.bonus
        /\ bot.last.path \in {"direct", "button", "rename"}
              => bot.last.count < MAX_DAILY_DOWNLOADS + bot.bonus

====
